---- MODULE Spec2Model ----
(***************************************************************************)
(* TerraformStateManager (terraform-aws/python/terraform_state.py): the    *)
(* state document kept as one JSON blob in an S3 bucket, its download and  *)
(* upload through a temporary file, and the queries computed from a fresh  *)
(* download.                                                               *)
(*                                                                         *)
(* Python values are records tagged by their type: [str |-> "a"],          *)
(* [num |-> 1], [bool |-> TRUE], [list |-> <<v, ...>>], a dict as the      *)
(* sequence of its items in insertion order [obj |-> <<[key, val], ...>>], *)
(* None, and [pyset |-> ...] for a value json cannot serialize.  The bytes *)
(* of a file or blob are a sequence of JSON tokens (white space, and so    *)
(* json.dump's indent=2, is not a token).                                  *)
(***************************************************************************)
EXTENDS Integers, Sequences, FiniteSets, TLC

\* ------------------------------------------------------------ bounds
\* Cap on the temporary files counted on disk.
MaxTmp == 2
\* Instances of the widest resource block of the document pool.
MaxInstances == 2
\* Resource blocks of the longest document of the document pool.
MaxBlocks == 3

\* ------------------------------------------------------------ Python values
None == [none |-> TRUE]
Str(s) == [str |-> s]
Num(n) == [num |-> n]
Bool(b) == [bool |-> b]
List(items) == [list |-> items]
Item(k, v) == [key |-> k, val |-> v]
Dict(items) == [obj |-> items]

IsStr(v) == "str" \in DOMAIN v
IsNum(v) == "num" \in DOMAIN v
IsBool(v) == "bool" \in DOMAIN v
IsList(v) == "list" \in DOMAIN v
IsDict(v) == "obj" \in DOMAIN v
IsNone(v) == "none" \in DOMAIN v

\* bool(v): None, False, 0, "", [] and {} are false.
Truthy(v) ==
    CASE IsNone(v) -> FALSE
      [] IsBool(v) -> v.bool
      [] IsNum(v) -> v.num # 0
      [] IsStr(v) -> v.str # ""
      [] IsList(v) -> v.list # <<>>
      [] IsDict(v) -> v.obj # <<>>
      [] OTHER -> TRUE

\* key in d
HasKey(d, k) == \E i \in 1..Len(d.obj) : d.obj[i].key = k

\* d[k] for a key that is present
Lookup(d, k) == d.obj[CHOOSE i \in 1..Len(d.obj) : d.obj[i].key = k].val

\* d.get(k, default)
DictGet(d, k, default) == IF HasKey(d, k) THEN Lookup(d, k) ELSE default

\* d[k] = v on the item sequence: a present key keeps its position and takes
\* the new value, a new key goes last.
DictSet(items, k, v) ==
    IF \E i \in 1..Len(items) : items[i].key = k
    THEN [i \in 1..Len(items) |-> IF items[i].key = k THEN Item(k, v) ELSE items[i]]
    ELSE Append(items, Item(k, v))

\* ------------------------------------------------------------ json
Tok(t) == [t |-> t]
StrTok(s) == [t |-> "str", s |-> s]
NumTok(n) == [t |-> "num", n |-> n]

RECURSIVE Serializable(_)
RECURSIVE SerializableAll(_, _)
\* json.dump raises TypeError on a value that is none of dict, list, str,
\* number, bool and None.
Serializable(v) ==
    CASE IsList(v) -> SerializableAll(v.list, 1)
      [] IsDict(v) -> SerializableAll([i \in 1..Len(v.obj) |-> v.obj[i].val], 1)
      [] IsStr(v) \/ IsNum(v) \/ IsBool(v) \/ IsNone(v) -> TRUE
      [] OTHER -> FALSE
SerializableAll(vs, i) ==
    IF i > Len(vs) THEN TRUE ELSE Serializable(vs[i]) /\ SerializableAll(vs, i + 1)

RECURSIVE Encode(_)
RECURSIVE EncodeElements(_, _)
RECURSIVE EncodeMembers(_, _)
\* The tokens json.dump writes for a serializable value.
Encode(v) ==
    CASE IsStr(v) -> <<StrTok(v.str)>>
      [] IsNum(v) -> <<NumTok(v.num)>>
      [] IsBool(v) -> <<Tok(IF v.bool THEN "true" ELSE "false")>>
      [] IsNone(v) -> <<Tok("null")>>
      [] IsList(v) -> <<Tok("[")>> \o EncodeElements(v.list, 1) \o <<Tok("]")>>
      [] IsDict(v) -> <<Tok("{")>> \o EncodeMembers(v.obj, 1) \o <<Tok("}")>>
EncodeElements(vs, i) ==
    IF i > Len(vs) THEN <<>>
    ELSE (IF i > 1 THEN <<Tok(",")>> ELSE <<>>) \o Encode(vs[i]) \o EncodeElements(vs, i + 1)
EncodeMembers(items, i) ==
    IF i > Len(items) THEN <<>>
    ELSE (IF i > 1 THEN <<Tok(",")>> ELSE <<>>)
         \o <<StrTok(items[i].key), Tok(":")>> \o Encode(items[i].val)
         \o EncodeMembers(items, i + 1)

\* A dump that writes the resources and outputs of a dict and no other field.
json_dump_known_fields(v) ==
    IF ~Serializable(v) THEN [exc |-> "TypeError"]
    ELSE IF ~IsDict(v) THEN [exc |-> "none", bytes |-> Encode(v)]
    ELSE [exc |-> "none",
          bytes |-> Encode(Dict(SelectSeq(v.obj,
                                          LAMBDA it : it.key \in {"resources", "outputs"})))]

\* json.dump(state_data, temp_file, indent=2): the bytes written, or TypeError.
json_dump(v) ==
    IF Serializable(v) THEN [exc |-> "none", bytes |-> Encode(v)]
    ELSE [exc |-> "TypeError"]

ParseFail == [ok |-> FALSE]
Parsed(v, n) == [ok |-> TRUE, val |-> v, next |-> n]
TokAt(toks, i) == IF i <= Len(toks) THEN toks[i].t ELSE "eof"

RECURSIVE ParseValue(_, _)
RECURSIVE ParseElements(_, _, _)
RECURSIVE ParseMembers(_, _, _)
\* One JSON value read from toks at position i.
ParseValue(toks, i) ==
    LET t == TokAt(toks, i) IN
    CASE t = "str" -> Parsed(Str(toks[i].s), i + 1)
      [] t = "num" -> Parsed(Num(toks[i].n), i + 1)
      [] t = "true" -> Parsed(Bool(TRUE), i + 1)
      [] t = "false" -> Parsed(Bool(FALSE), i + 1)
      [] t = "null" -> Parsed(None, i + 1)
      [] t = "[" -> IF TokAt(toks, i + 1) = "]" THEN Parsed(List(<<>>), i + 2)
                    ELSE ParseElements(toks, i + 1, <<>>)
      [] t = "{" -> IF TokAt(toks, i + 1) = "}" THEN Parsed(Dict(<<>>), i + 2)
                    ELSE ParseMembers(toks, i + 1, <<>>)
      [] OTHER -> ParseFail
ParseElements(toks, i, acc) ==
    LET r == ParseValue(toks, i) IN
    IF ~r.ok THEN ParseFail
    ELSE CASE TokAt(toks, r.next) = "," -> ParseElements(toks, r.next + 1, Append(acc, r.val))
           [] TokAt(toks, r.next) = "]" -> Parsed(List(Append(acc, r.val)), r.next + 1)
           [] OTHER -> ParseFail
\* A repeated key keeps its first position and takes its last value, as
\* the dict json builds does.
ParseMembers(toks, i, acc) ==
    IF TokAt(toks, i) # "str" \/ TokAt(toks, i + 1) # ":" THEN ParseFail
    ELSE LET r == ParseValue(toks, i + 2) IN
         IF ~r.ok THEN ParseFail
         ELSE CASE TokAt(toks, r.next) = "," ->
                       ParseMembers(toks, r.next + 1, DictSet(acc, toks[i].s, r.val))
                [] TokAt(toks, r.next) = "}" ->
                       Parsed(Dict(DictSet(acc, toks[i].s, r.val)), r.next + 1)
                [] OTHER -> ParseFail

\* json.load(temp_file): the value, or JSONDecodeError on bytes that are not
\* exactly one JSON value.
json_load(bytes) ==
    LET r == ParseValue(bytes, 1) IN
    IF r.ok /\ r.next = Len(bytes) + 1 THEN [exc |-> "none", val |-> r.val]
    ELSE [exc |-> "JSONDecodeError"]

\* ------------------------------------------------------------ the blob store
\* The object at bucket_name/state_key: its bytes, or no object.
NoObject == [absent |-> TRUE]
Object(bytes) == [bytes |-> bytes]

\* What the store answers at the time of a call.
Conds == {"up", "denied", "down"}

\* self.s3.download_fileobj(bucket_name, state_key, temp_file): botocore's
\* ClientError for a missing key (404) or a refused request (403), a
\* connection error when the endpoint cannot be reached, the object's
\* bytes otherwise.
s3_download_fileobj(blob, cond) ==
    CASE cond = "down" -> [exc |-> "EndpointConnectionError"]
      [] cond = "denied" -> [exc |-> "ClientError"]
      [] blob = NoObject -> [exc |-> "ClientError"]
      [] OTHER -> [exc |-> "none", bytes |-> blob.bytes]

\* An upload that refuses to replace an object that exists (If-None-Match).
s3_upload_file_if_absent(blob, bytes, cond) ==
    IF cond = "up" /\ blob = NoObject THEN [exc |-> "none", blob |-> Object(bytes)]
    ELSE [exc |-> "S3UploadFailedError", blob |-> blob]

\* self.s3.upload_file(temp_file.name, bucket_name, state_key): the object
\* is replaced as a whole, whatever it held and whoever wrote it; boto3
\* wraps a failed transfer in S3UploadFailedError.
s3_upload_file(blob, bytes, cond) ==
    IF cond = "up" THEN [exc |-> "none", blob |-> Object(bytes)]
    ELSE [exc |-> "S3UploadFailedError", blob |-> blob]

\* The exceptions the calls above raise; each derives from Exception.
ExceptionClasses ==
    {"ClientError", "EndpointConnectionError", "S3UploadFailedError",
     "JSONDecodeError", "TypeError", "KeyError", "AttributeError"}

\* `except ClientError` in the place of `except Exception`.
ExceptClientErrorOnly(exc) == exc = "ClientError"

\* `except Exception`, lines 49 and 65.
ExceptException(exc) == exc \in ExceptionClasses

\* ------------------------------------------------------------ the methods
\* The outcome of a call: the value returned (ret), the exception that
\* escaped to the caller (exc, "none" when the call returned), the temporary
\* files the call left on disk (tmp) and the downloads it asked of the
\* store (fetches).
Returned(v, tmp, fetches) == [ret |-> v, exc |-> "none", tmp |-> tmp, fetches |-> fetches]
Raised(e, tmp, fetches) == [ret |-> None, exc |-> e, tmp |-> tmp, fetches |-> fetches]

\* The except clauses on lines 49-51 and 65-67: an exception raised inside
\* the with block leaves it before the os.unlink, so the temporary file
\* (delete=False) stays; the handler returns the fallback value.
Handled(exc, fallback, fetches) ==
    IF ExceptException(exc) THEN Returned(fallback, 1, fetches) ELSE Raised(exc, 1, fetches)

\* Lines 44-48: json.load, os.unlink, return state_data.
LoadedState(loaded) ==
    IF loaded.exc # "none" THEN Handled(loaded.exc, None, 1)
    ELSE Returned(loaded.val, 0, 1)

\* Lines 42-48, from the return of download_fileobj on.
FetchedState(got) ==
    IF got.exc # "none" THEN Handled(got.exc, None, 1)
    ELSE LoadedState(json_load(got.bytes))

\* A download that asks the store a second time when the first fetch failed.
download_state_retry(blob, cond) ==
    IF s3_download_fileobj(blob, cond).exc = "none"
    THEN FetchedState(s3_download_fileobj(blob, cond))
    ELSE [FetchedState(s3_download_fileobj(blob, cond)) EXCEPT !.fetches = 2]

\* download_state, lines 38-51: one download_fileobj call into a fresh
\* temporary file.
download_state(blob, cond) == FetchedState(s3_download_fileobj(blob, cond))

\* `return True` moved after the try statement: True whatever upload_file did.
PutStateTrue(state_data, put) ==
    [out |-> Returned(Bool(TRUE), IF put.exc # "none" THEN 1 ELSE 0, 0),
     blob |-> put.blob, written |-> put.exc = "none", state_data |-> state_data]

\* Lines 60-64, from the return of upload_file on.
PutState(state_data, put) ==
    [out |-> IF put.exc # "none" THEN Handled(put.exc, Bool(FALSE), 0)
             ELSE Returned(Bool(TRUE), 0, 0),
     blob |-> put.blob, written |-> put.exc = "none", state_data |-> state_data]

\* Lines 57-64, from the return of json.dump on.
DumpedState(state_data, blob, cond, dumped) ==
    IF dumped.exc # "none"
    THEN [out |-> Handled(dumped.exc, Bool(FALSE), 0),
          blob |-> blob, written |-> FALSE, state_data |-> state_data]
    ELSE PutState(state_data, s3_upload_file(blob, dumped.bytes, cond))

\* upload_state, lines 53-67: the outcome, the blob after the call, whether
\* the store took the write, and the caller's state_data after the call
\* (json.dump only reads it).
upload_state(state_data, blob, cond) ==
    DumpedState(state_data, blob, cond, json_dump(state_data))

\* `for x in v`: the elements of a list, the keys of a dict, the characters
\* of a str (each a str: one stands for them all), TypeError otherwise.
Iterate(v) ==
    CASE IsList(v) -> [exc |-> "none", items |-> v.list]
      [] IsDict(v) -> [exc |-> "none", items |-> [i \in 1..Len(v.obj) |-> Str(v.obj[i].key)]]
      [] IsStr(v) -> [exc |-> "none", items |-> IF v.str = "" THEN <<>> ELSE <<v>>]
      [] OTHER -> [exc |-> "TypeError"]

\* state read from the block (resource.get) in the place of the instance.
FlatResourceBlockState(resource, instance) ==
    CASE ~HasKey(resource, "type") -> [exc |-> "KeyError"]
      [] ~HasKey(resource, "name") -> [exc |-> "KeyError"]
      [] ~HasKey(resource, "provider") -> [exc |-> "KeyError"]
      [] OTHER ->
           [exc |-> "none",
            val |-> Dict(<<Item("type", Lookup(resource, "type")),
                           Item("name", Lookup(resource, "name")),
                           Item("provider", Lookup(resource, "provider")),
                           Item("state", DictGet(resource, "attributes", Dict(<<>>))),
                           Item("dependencies", DictGet(resource, "depends_on", List(<<>>)))>>)]

\* The dict appended on lines 78-84, its values evaluated in source order.
FlatResource(resource, instance) ==
    CASE ~HasKey(resource, "type") -> [exc |-> "KeyError"]
      [] ~HasKey(resource, "name") -> [exc |-> "KeyError"]
      [] ~HasKey(resource, "provider") -> [exc |-> "KeyError"]
      [] ~IsDict(instance) -> [exc |-> "AttributeError"]
      [] OTHER ->
           [exc |-> "none",
            val |-> Dict(<<Item("type", Lookup(resource, "type")),
                           Item("name", Lookup(resource, "name")),
                           Item("provider", Lookup(resource, "provider")),
                           Item("state", DictGet(instance, "attributes", Dict(<<>>))),
                           Item("dependencies", DictGet(resource, "depends_on", List(<<>>)))>>)]

RECURSIVE InstancesLoop(_, _, _, _)
\* The inner loop, lines 77-84, from the j-th instance on.
InstancesLoop(resource, instances, j, acc) ==
    IF j > Len(instances) THEN [exc |-> "none", list |-> acc]
    ELSE LET e == FlatResource(resource, instances[j]) IN
         IF e.exc # "none" THEN [exc |-> e.exc]
         ELSE InstancesLoop(resource, instances, j + 1, Append(acc, e.val))

RECURSIVE ResourcesLoop(_, _, _)
\* The outer loop, lines 76-84, from the i-th resource on.
ResourcesLoop(resources, i, acc) ==
    IF i > Len(resources) THEN [exc |-> "none", list |-> acc]
    ELSE LET resource == resources[i] IN
         IF ~IsDict(resource) THEN [exc |-> "AttributeError"]
         ELSE LET it == Iterate(DictGet(resource, "instances", List(<<>>))) IN
              IF it.exc # "none" THEN [exc |-> it.exc]
              ELSE LET r == InstancesLoop(resource, it.items, 1, acc) IN
                   IF r.exc # "none" THEN r ELSE ResourcesLoop(resources, i + 1, r.list)

\* Lines 75-86 on a dict state_data: the flattened list, or the exception
\* its loops raise.
Flatten(state_data) ==
    LET it == Iterate(DictGet(state_data, "resources", List(<<>>))) IN
    IF it.exc # "none" THEN it ELSE ResourcesLoop(it.items, 1, <<>>)

\* get_resources without the `if not state_data` test of lines 72-73.
ResourcesOfUnchecked(d) ==
    CASE d.exc # "none" -> d
      [] ~IsDict(d.ret) -> Raised("AttributeError", d.tmp, d.fetches)
      [] Flatten(d.ret).exc # "none" -> Raised(Flatten(d.ret).exc, d.tmp, d.fetches)
      [] OTHER -> Returned(List(Flatten(d.ret).list), d.tmp, d.fetches)

\* Lines 72-86, from the return of download_state on.  There is no try: what
\* the loops raise reaches the caller.
ResourcesOf(d) ==
    CASE d.exc # "none" -> d
      [] ~Truthy(d.ret) -> Returned(List(<<>>), d.tmp, d.fetches)
      [] ~IsDict(d.ret) -> Raised("AttributeError", d.tmp, d.fetches)
      [] Flatten(d.ret).exc # "none" -> Raised(Flatten(d.ret).exc, d.tmp, d.fetches)
      [] OTHER -> Returned(List(Flatten(d.ret).list), d.tmp, d.fetches)

\* get_resources, lines 69-86.
get_resources(blob, cond) == ResourcesOf(download_state(blob, cond))

\* The comprehension of line 91 comparing r['name'] in the place of r['type'].
OfTypeByName(all, resource_type) ==
    IF all.exc # "none" THEN all
    ELSE Returned(List(SelectSeq(all.ret.list,
                                 LAMBDA r : Lookup(r, "name") = Str(resource_type))),
                  all.tmp, all.fetches)

\* Line 91: the comprehension over all_resources.
OfType(all, resource_type) ==
    IF all.exc # "none" THEN all
    ELSE Returned(List(SelectSeq(all.ret.list,
                                 LAMBDA r : Lookup(r, "type") = Str(resource_type))),
                  all.tmp, all.fetches)

\* get_resource_by_type, lines 88-91.
get_resource_by_type(blob, cond, resource_type) ==
    OfType(get_resources(blob, cond), resource_type)

RECURSIVE NameLoopLast(_, _, _)
\* The loop of lines 96-99 without its early return: the last match wins.
NameLoopLast(resources, i, resource_name) ==
    IF i > Len(resources) THEN None
    ELSE IF NameLoopLast(resources, i + 1, resource_name) # None
         THEN NameLoopLast(resources, i + 1, resource_name)
    ELSE IF Lookup(resources[i], "name") = Str(resource_name) THEN resources[i]
    ELSE None

RECURSIVE NameLoop(_, _, _)
\* The loop on lines 96-99, from the i-th entry on.
NameLoop(resources, i, resource_name) ==
    IF i > Len(resources) THEN None
    ELSE IF Lookup(resources[i], "name") = Str(resource_name) THEN resources[i]
    ELSE NameLoop(resources, i + 1, resource_name)

\* Lines 96-99 on all_resources.
Named(all, resource_name) ==
    IF all.exc # "none" THEN all
    ELSE Returned(NameLoop(all.ret.list, 1, resource_name), all.tmp, all.fetches)

\* get_resource_by_name, lines 93-99.
get_resource_by_name(blob, cond, resource_name) ==
    Named(get_resources(blob, cond), resource_name)

\* Lines 104-107, from the return of download_state on.
OutputsOf(d) ==
    CASE d.exc # "none" -> d
      [] ~Truthy(d.ret) -> Returned(Dict(<<>>), d.tmp, d.fetches)
      [] ~IsDict(d.ret) -> Raised("AttributeError", d.tmp, d.fetches)
      [] OTHER -> Returned(DictGet(d.ret, "outputs", Dict(<<>>)), d.tmp, d.fetches)

\* list_outputs, lines 101-107.
list_outputs(blob, cond) == OutputsOf(download_state(blob, cond))

\* ------------------------------------------------------------ inputs
\* One instance of a resource block, with its attributes.
Instance(i) == Dict(<<Item("attributes", Dict(<<Item("index", Num(i))>>))>>)
Instances(k) == [i \in 1..k |-> Instance(i)]

\* The i-th block of the long document: MaxInstances instances in the
\* first block and one fewer in each next one, types alternating, the name x
\* shared by the first two blocks, depends_on present in the even blocks only.
NthBlock(i) ==
    Dict(<<Item("type", Str(IF i % 2 = 1 THEN "instance" ELSE "bucket")),
           Item("name", Str(IF i <= 2 THEN "x" ELSE "y")),
           Item("provider", Str("p")),
           Item("instances", List(Instances((MaxInstances + 1 - i) % (MaxInstances + 1))))>>
         \o (IF i % 2 = 0 THEN <<Item("depends_on", List(<<Str("instance.x")>>))>> ELSE <<>>))

EmptyDoc == Dict(<<>>)
\* The document of the end-to-end scenario, with a format version field.
LogsDoc ==
    Dict(<<Item("version", Num(4)),
           Item("resources",
                List(<<Dict(<<Item("type", Str("bucket")), Item("name", Str("logs")),
                              Item("provider", Str("p")),
                              Item("instances",
                                   List(<<Dict(<<Item("attributes",
                                                      Dict(<<Item("id", Str("logs-1"))>>))>>)>>)),
                              Item("depends_on", List(<<>>))>>)>>)),
           Item("outputs",
                Dict(<<Item("logs_arn", Dict(<<Item("value", Str("arn:x:logs"))>>))>>))>>)
\* MaxBlocks blocks, lineage and serial fields, no outputs.
LongDoc ==
    Dict(<<Item("lineage", Str("abc")), Item("serial", Num(7)),
           Item("resources", List([i \in 1..MaxBlocks |-> NthBlock(i)]))>>)
\* Two blocks named x, the bucket first; an instance without attributes; a
\* block without instances.
SwapDoc ==
    Dict(<<Item("resources",
                List(<<Dict(<<Item("type", Str("bucket")), Item("name", Str("x")),
                              Item("provider", Str("p")),
                              Item("instances", List(<<Dict(<<>>)>>))>>),
                       NthBlock(1),
                       Dict(<<Item("type", Str("bucket")), Item("name", Str("idle")),
                              Item("provider", Str("p"))>>)>>)),
           Item("outputs",
                Dict(<<Item("n", Dict(<<Item("value", Num(1)),
                                        Item("sensitive", Bool(TRUE))>>))>>))>>)
DocPool == {EmptyDoc, LogsDoc, LongDoc, SwapDoc}

\* JSON that is no state document: a list, and a block without a type.
ListDoc == List(<<Num(1)>>)
UntypedDoc ==
    Dict(<<Item("resources",
                List(<<Dict(<<Item("name", Str("x")),
                              Item("instances", List(<<Dict(<<>>)>>))>>)>>))>>)

\* Bytes json.load rejects: an empty file, a truncated document, a document
\* followed by more data.
GarbageBytes ==
    {<<>>, <<Tok("{"), StrTok("resources"), Tok(":"), Tok("[")>>,
     <<Tok("{"), Tok("}"), Tok("}")>>}
\* {"serial": 1, "resources": [], "serial": 2}
RepeatedKeyBytes ==
    <<Tok("{"), StrTok("serial"), Tok(":"), NumTok(1), Tok(","),
      StrTok("resources"), Tok(":"), Tok("["), Tok("]"), Tok(","),
      StrTok("serial"), Tok(":"), NumTok(2), Tok("}")>>
NullBytes == <<Tok("null")>>

\* What the bucket may hold before the first call.
BlobPool ==
    {NoObject}
    \cup {Object(b) : b \in GarbageBytes \cup {RepeatedKeyBytes, NullBytes}}
    \cup {Object(Encode(v)) : v \in DocPool \cup {ListDoc, UntypedDoc}}

\* The documents a caller can have parsed from the bucket's contents.
ParsedDocs ==
    {json_load(o.bytes).val :
        o \in {b \in BlobPool \ {NoObject} :
                  /\ json_load(b.bytes).exc = "none"
                  /\ IsDict(json_load(b.bytes).val)}}

\* A dict json.dump cannot serialize.
SetDoc == Dict(<<Item("resources", [pyset |-> TRUE])>>)

\* The arguments of upload_state, get_resource_by_type, get_resource_by_name.
UploadArgs == ParsedDocs \cup {SetDoc}
TypeArgs == {"bucket", "instance", "vpc"}
NameArgs == {"x", "logs", "web"}

\* Two TerraformStateManager objects on the same bucket_name and state_key.
Managers == {"a", "b"}
\* The documents the two write in the race.
RaceArgs == {LogsDoc, SwapDoc}

\* ------------------------------------------------------------ state
VARIABLES
    blob,       \* the object at bucket_name/state_key
    tmpfiles,   \* temporary files left on disk, counted up to MaxTmp
    call,       \* per manager, its last completed call and what it returned
    stored,     \* the write the store took last: who made it, with what document
    basis       \* per manager, whether the blob is still the one it downloaded

vars == <<blob, tmpfiles, call, stored, basis>>

NoCall == [op |-> "none"]
NoWrite == [by |-> "nobody"]

Min(a, b) == IF a < b THEN a ELSE b

Init ==
    /\ blob \in BlobPool
    /\ tmpfiles = 0
    /\ call = [m \in Managers |-> NoCall]
    /\ stored = NoWrite
    /\ basis = [m \in Managers |-> "none"]

\* The record of a completed call: its operation, argument and the store's
\* condition, the outcome, the argument object after the call, and what the
\* caller's copy and the blob were based on when the call began.
Complete(m, op, arg, cond, out, after) ==
    /\ tmpfiles' = Min(tmpfiles + out.tmp, MaxTmp)
    /\ call' = [call EXCEPT ![m] =
                    [op |-> op, arg |-> arg, cond |-> cond, ret |-> out.ret,
                     exc |-> out.exc, fetches |-> out.fetches, after |-> after,
                     basis |-> basis[m], over |-> stored.by]]

DownloadState(m, cond) ==
    LET out == download_state(blob, cond) IN
    /\ Complete(m, "download_state", None, cond, out, None)
    /\ basis' = IF out.exc = "none" /\ out.ret # None
                THEN [basis EXCEPT ![m] = "current"] ELSE basis
    /\ UNCHANGED <<blob, stored>>

UploadState(m, state_data, cond) ==
    LET r == upload_state(state_data, blob, cond) IN
    /\ Complete(m, "upload_state", state_data, cond, r.out, r.state_data)
    /\ blob' = r.blob
    /\ stored' = IF r.written THEN [by |-> m, doc |-> state_data] ELSE stored
    /\ basis' = IF r.written
                THEN [k \in Managers |->
                         IF k = m THEN "none"
                         ELSE IF basis[k] = "current" THEN "stale" ELSE basis[k]]
                ELSE basis

GetResources(m, cond) ==
    /\ Complete(m, "get_resources", None, cond, get_resources(blob, cond), None)
    /\ UNCHANGED <<blob, stored, basis>>

GetResourceByType(m, cond, resource_type) ==
    /\ Complete(m, "get_resource_by_type", Str(resource_type), cond,
                get_resource_by_type(blob, cond, resource_type), Str(resource_type))
    /\ UNCHANGED <<blob, stored, basis>>

GetResourceByName(m, cond, resource_name) ==
    /\ Complete(m, "get_resource_by_name", Str(resource_name), cond,
                get_resource_by_name(blob, cond, resource_name), Str(resource_name))
    /\ UNCHANGED <<blob, stored, basis>>

ListOutputs(m, cond) ==
    /\ Complete(m, "list_outputs", None, cond, list_outputs(blob, cond), None)
    /\ UNCHANGED <<blob, stored, basis>>

\* One manager, its methods called in any order with any argument.
Next ==
    \E m \in {"a"}, cond \in Conds :
        \/ DownloadState(m, cond)
        \/ \E state_data \in UploadArgs : UploadState(m, state_data, cond)
        \/ GetResources(m, cond)
        \/ \E resource_type \in TypeArgs : GetResourceByType(m, cond, resource_type)
        \/ \E resource_name \in NameArgs : GetResourceByName(m, cond, resource_name)
        \/ ListOutputs(m, cond)

Spec == Init /\ [][Next]_vars

\* Two managers, each calling download_state and then upload_state once, in
\* any interleaving.
RaceNext ==
    \E m \in Managers, cond \in Conds :
        \/ call[m].op = "none" /\ DownloadState(m, cond)
        \/ /\ call[m].op = "download_state"
           /\ \E state_data \in RaceArgs : UploadState(m, state_data, cond)

RaceSpec == Init /\ [][RaceNext]_vars

\* ------------------------------------------------------------ properties
\* The last completed call of the manager that Spec runs.
Last == call["a"]

\* The bucket holds bytes that json.load accepts.
Parseable == blob # NoObject /\ blob.bytes \notin GarbageBytes

\* The document the bucket's bytes stand for.
BlobDoc == json_load(blob.bytes).val

\* The i-th smallest element of a set of numbers.
Kth(S, k) == CHOOSE i \in S : Cardinality({j \in S : j <= i}) = k

\* A state document of the data model: a dict whose resources, when present,
\* are a list of dicts with type, name and provider, whose instances, when
\* present, are a list of dicts.
WellFormed(d) ==
    /\ IsDict(d)
    /\ HasKey(d, "resources") =>
         /\ IsList(Lookup(d, "resources"))
         /\ \A i \in 1..Len(Lookup(d, "resources").list) :
              LET b == Lookup(d, "resources").list[i] IN
              /\ IsDict(b)
              /\ HasKey(b, "type") /\ HasKey(b, "name") /\ HasKey(b, "provider")
              /\ HasKey(b, "instances") =>
                   /\ IsList(Lookup(b, "instances"))
                   /\ \A j \in 1..Len(Lookup(b, "instances").list) :
                        IsDict(Lookup(b, "instances").list[j])

BlocksOf(d) == IF HasKey(d, "resources") THEN Lookup(d, "resources").list ELSE <<>>
InstancesOf(b) == IF HasKey(b, "instances") THEN Lookup(b, "instances").list ELSE <<>>

RECURSIVE EntriesBefore(_, _)
\* The instances of the blocks before the i-th.
EntriesBefore(blocks, i) ==
    IF i <= 1 THEN 0
    ELSE EntriesBefore(blocks, i - 1) + Len(InstancesOf(blocks[i - 1]))

\* C1: download_state never raises; it returns None whenever the fetch fails
\* (no such key, access denied, endpoint unreachable) or the fetched bytes do
\* not parse, so a value other than None is returned only after a fetch that
\* succeeded on bytes that parsed.
C1_DownloadNeverRaises ==
    Last.op = "download_state" =>
        /\ Last.exc = "none"
        /\ (Last.cond # "up" \/ ~Parseable) => Last.ret = None
        /\ Last.ret # None => (Last.cond = "up" /\ Parseable)

C1_Witness ==
    /\ Last.op = "download_state"
    /\ Last.cond = "up"
    /\ blob # NoObject
    /\ blob.bytes \in GarbageBytes
    /\ Last.ret = None

\* The download inside a query yields None: the fetch failed, the bytes did
\* not parse, or they are the JSON null.
DownloadAbsent ==
    Last.cond # "up" \/ ~Parseable \/ blob.bytes = NullBytes

\* C2: when the download inside a query yields None, get_resources and
\* get_resource_by_type return an empty list, get_resource_by_name returns
\* None and list_outputs returns an empty dict, and none of them raises.
C2_AbsentDownloadQueries ==
    (Last.op \in {"get_resources", "get_resource_by_type",
                  "get_resource_by_name", "list_outputs"} /\ DownloadAbsent) =>
        /\ Last.exc = "none"
        /\ Last.op \in {"get_resources", "get_resource_by_type"} => Last.ret = List(<<>>)
        /\ Last.op = "get_resource_by_name" => Last.ret = None
        /\ Last.op = "list_outputs" => Last.ret = Dict(<<>>)

C2_Witness ==
    /\ Last.op = "get_resource_by_name"
    /\ Last.cond = "up"
    /\ blob = NoObject
    /\ Last.exc = "none"
    /\ Last.ret = None

\* C3: on a well-formed document get_resources returns one entry per
\* (block, instance) pair, the sum of the blocks' instance counts in all, in
\* block order and then instance order; an entry has its block's type, name
\* and provider, its instance's attributes as state ({} when it has none) and
\* its block's depends_on as dependencies ([] when missing).  No resources,
\* or a block without instances, gives no entry and no error.
C3_Flattening ==
    (Last.op = "get_resources" /\ Last.cond = "up" /\ Parseable /\ WellFormed(BlobDoc)) =>
        LET blocks == BlocksOf(BlobDoc) IN
        /\ Last.exc = "none"
        /\ IsList(Last.ret)
        /\ Len(Last.ret.list) = EntriesBefore(blocks, Len(blocks) + 1)
        /\ \A i \in 1..Len(blocks) : \A j \in 1..Len(InstancesOf(blocks[i])) :
             LET e == Last.ret.list[EntriesBefore(blocks, i) + j]
                 b == blocks[i]
                 inst == InstancesOf(b)[j]
             IN /\ Lookup(e, "type") = Lookup(b, "type")
                /\ Lookup(e, "name") = Lookup(b, "name")
                /\ Lookup(e, "provider") = Lookup(b, "provider")
                /\ Lookup(e, "state") =
                       IF HasKey(inst, "attributes") THEN Lookup(inst, "attributes")
                       ELSE Dict(<<>>)
                /\ Lookup(e, "dependencies") =
                       IF HasKey(b, "depends_on") THEN Lookup(b, "depends_on")
                       ELSE List(<<>>)

\* A document of three blocks or more, one of them with several instances and
\* one with none, has been flattened.
C3_Witness ==
    /\ Last.op = "get_resources"
    /\ Last.cond = "up"
    /\ Parseable
    /\ WellFormed(BlobDoc)
    /\ Len(BlocksOf(BlobDoc)) >= 3
    /\ \E i \in 1..Len(BlocksOf(BlobDoc)) : Len(InstancesOf(BlocksOf(BlobDoc)[i])) >= 2
    /\ \E i \in 1..Len(BlocksOf(BlobDoc)) : Len(InstancesOf(BlocksOf(BlobDoc)[i])) = 0
    /\ Len(Last.ret.list) >= 3

\* What get_resources gives on the blob of the last call, under the store
\* condition of that call.
AllResources == get_resources(blob, Last.cond)

\* The positions of AllResources whose field equals the string s.
Matching(field, s) ==
    {i \in 1..Len(AllResources.ret.list) :
        Lookup(AllResources.ret.list[i], field) = Str(s)}

\* C4: get_resource_by_type(T) returns exactly the entries of get_resources'
\* result on the same document whose type is the string T, in the same
\* relative order; a T no block has gives the empty list and no error (and it
\* raises exactly when get_resources does).
C4_FilterByType ==
    Last.op = "get_resource_by_type" =>
        /\ Last.exc = AllResources.exc
        /\ Last.exc = "none" =>
             LET idx == Matching("type", Last.arg.str) IN
             /\ Len(Last.ret.list) = Cardinality(idx)
             /\ \A k \in 1..Cardinality(idx) :
                  Last.ret.list[k] = AllResources.ret.list[Kth(idx, k)]

\* A filter that kept some entries, dropped others, and does not start with
\* the first entry of the document.
C4_Witness ==
    /\ Last.op = "get_resource_by_type"
    /\ Last.exc = "none"
    /\ Last.ret.list # <<>>
    /\ Len(Last.ret.list) < Len(AllResources.ret.list)
    /\ Last.ret.list[1] # AllResources.ret.list[1]

\* C5: get_resource_by_name(x) returns the first entry of the flattened list
\* whose name is x (with two blocks named x, the entry of the earlier one),
\* and None, without raising, when no entry has that name (it raises exactly
\* when get_resources does).
C5_FindFirstByName ==
    Last.op = "get_resource_by_name" =>
        /\ Last.exc = AllResources.exc
        /\ Last.exc = "none" =>
             LET idx == Matching("name", Last.arg.str) IN
             /\ idx = {} => Last.ret = None
             /\ idx # {} => Last.ret = AllResources.ret.list[Kth(idx, 1)]

\* Two entries of different types bear the name asked for, and the one
\* returned is of the type that comes first.
C5_Witness ==
    /\ Last.op = "get_resource_by_name"
    /\ Last.exc = "none"
    /\ Last.ret # None
    /\ \E i \in Matching("name", Last.arg.str) :
          /\ Lookup(AllResources.ret.list[i], "type") # Lookup(Last.ret, "type")
          /\ \A j \in Matching("name", Last.arg.str) :
                Lookup(AllResources.ret.list[j], "type") = Lookup(Last.ret, "type")
                    => j < i

\* C6: once the store has taken upload_state(d) for a parsed document d, a
\* download_state whose fetch the store answers returns a document equal to
\* d in every field, the top-level fields other than resources and outputs
\* included, as long as no other write was taken in between.
C6_RoundTrip ==
    (Last.op = "download_state" /\ Last.cond = "up" /\ stored # NoWrite) =>
        /\ Last.exc = "none"
        /\ Last.ret = stored.doc

\* A document with lineage and serial fields came back from the store.
C6_Witness ==
    /\ Last.op = "download_state"
    /\ Last.cond = "up"
    /\ stored # NoWrite
    /\ IsDict(Last.ret)
    /\ HasKey(Last.ret, "lineage")
    /\ HasKey(Last.ret, "serial")
    /\ Last.ret = stored.doc

\* C7: when the store refuses or cannot be reached, upload_state returns
\* False, raises nothing, and the caller's document is what it was.
C7_UploadFailureIsolation ==
    (Last.op = "upload_state" /\ Last.cond # "up") =>
        /\ Last.exc = "none"
        /\ Last.ret = Bool(FALSE)
        /\ Last.after = Last.arg

C7_Witness ==
    /\ Last.op = "upload_state"
    /\ Last.cond = "down"
    /\ Last.arg = LogsDoc
    /\ Last.ret = Bool(FALSE)
    /\ Last.after = LogsDoc

\* C8: with two managers on the same object, a manager that has downloaded
\* can always upload, whatever the other manager is doing; an upload the
\* store is up for returns True whatever the other manager wrote since this
\* one's download; and the object is always the document of the write the
\* store took last.
C8_LastWriterWins ==
    /\ \A m \in Managers :
          call[m].op = "download_state" =>
              \A state_data \in RaceArgs : ENABLED UploadState(m, state_data, "up")
    /\ \A m \in Managers :
          (call[m].op = "upload_state" /\ call[m].cond = "up") =>
              /\ call[m].exc = "none"
              /\ call[m].ret = Bool(TRUE)
    /\ stored # NoWrite =>
          /\ blob # NoObject
          /\ json_load(blob.bytes) = [exc |-> "none", val |-> stored.doc]

\* Both managers downloaded, a wrote, then b wrote another document over it
\* from a copy that was stale by then: both got True and a's write is gone.
C8_Witness ==
    /\ call["a"].op = "upload_state" /\ call["a"].ret = Bool(TRUE)
    /\ call["b"].op = "upload_state" /\ call["b"].ret = Bool(TRUE)
    /\ call["b"].basis = "stale"
    /\ call["b"].over = "a"
    /\ call["a"].arg # call["b"].arg
    /\ stored = [by |-> "b", doc |-> call["b"].arg]
    /\ json_load(blob.bytes).val = call["b"].arg
    /\ json_load(blob.bytes).val # call["a"].arg

\* The outcome of a download that returned the document d.
Fresh(d) == Returned(d, 0, 1)

\* What the last call's method answers when its download has returned d.
AnswerOn(d) ==
    CASE Last.op = "download_state" -> d
      [] Last.op = "get_resources" -> ResourcesOf(d)
      [] Last.op = "get_resource_by_type" -> OfType(ResourcesOf(d), Last.arg.str)
      [] Last.op = "get_resource_by_name" -> Named(ResourcesOf(d), Last.arg.str)
      [] Last.op = "list_outputs" -> OutputsOf(d)

\* C9: each call of download_state and of the four queries asks the store for
\* exactly one download, whether it succeeds or fails, and answers from what
\* that download gave alone: after the store took a write, from the written
\* document when the fetch succeeds, and as on no document when it fails,
\* never from a document an earlier call obtained.
C9_OneFetchNoCache ==
    Last.op \in {"download_state", "get_resources", "get_resource_by_type",
                 "get_resource_by_name", "list_outputs"} =>
        /\ Last.fetches = 1
        /\ (stored # NoWrite /\ Last.cond = "up") =>
              /\ Last.ret = AnswerOn(Fresh(stored.doc)).ret
              /\ Last.exc = AnswerOn(Fresh(stored.doc)).exc
        /\ Last.cond # "up" =>
              /\ Last.ret = AnswerOn(Fresh(None)).ret
              /\ Last.exc = "none"

\* A query answered from a document written after the bucket's first content.
C9_Witness ==
    /\ Last.op = "list_outputs"
    /\ Last.cond = "up"
    /\ Last.fetches = 1
    /\ stored # NoWrite
    /\ stored.doc = LogsDoc
    /\ Last.ret = Lookup(LogsDoc, "outputs")

\* C10: no temporary file is left on disk after any sequence of calls.
C10_NoTempFileLeft == tmpfiles = 0
====
